---- MODULE Spec2Model ----
(***************************************************************************)
(* Stage lifecycle and frame scheduling of kitchen-chaos.                  *)
(*                                                                         *)
(* StageManager (src/unnamed/part_005), Stage (src/src/framework/Stage.ts),*)
(* GameStage (src/src/stages/GameStage.ts) and GameObject (the second      *)
(* class of src/src/framework/Logger.ts, lines 230-446).                   *)
(*                                                                         *)
(* The rendering engine is modelled at its interface: a Scene has a        *)
(* disposed flag and two observer lists (onBeforeRenderObservable,         *)
(* onAfterRenderObservable); Scene.dispose() clears both lists and sets    *)
(* the flag; Scene.render() does nothing on a disposed scene and otherwise *)
(* notifies the before-render observers, renders, and notifies the         *)
(* after-render observers; Engine.runRenderLoop(f) appends f to the active *)
(* render functions and Engine.stopRenderLoop() removes all of them.       *)
(***************************************************************************)
EXTENDS Integers, Sequences, FiniteSets, TLC

\* ------------------------------------------------------------------ bounds
\* number of setActiveStage calls that may be suspended in a load at once
MaxCalls == 2
\* how many times one scene may be disposed before the model stops swapping
MaxDispose == 2
\* how many render functions the host may register with the engine
MaxLoops == 2
\* how many components a game object may be given
MaxComponents == 2
\* how many times one game object may be added to stages where the
\* collections of the stages are under study
MaxNodes == 2
\* how many scenes the createScene of one stage may construct where the
\* constructions are counted
MaxCreated == 2

\* ------------------------------------------------------------- the universe
None == "none"
Names == {"A", "B"}
Stages == {"s1", "s2"}
\* the classes a stage can be an instance of: GameStage overrides
\* createScene, any other subclass inherits Stage.createScene
Kinds == {"GameStage", "Stage"}
GameObjects == {"g1", "g2", "g3"}
\* the game object that the host constructs where one game object is
\* under study
Solo == {"g1"}
Components == {"c1", "c2"}
\* the classes of the components: c1 is a CharacterController, c2 an
\* instance of a class that extends it
Classes == {"CharacterController", "PlayerController"}
Placeholder == "placeholder"
\* the scene a stage creates is named after the stage
Scenes == {Placeholder} \cup Stages
Calls == 1..MaxCalls

VARIABLES
    stageMap,       \* StageManager._stageMap : name -> stage
    currentScene,   \* StageManager._currentScene
    renderLoops,    \* number of active render functions of the engine
    loadingUI,      \* engine loading screen shown
    stageKind,      \* the class of each Stage object (fixed at creation)
    stageScene,     \* Stage._scene
    gameObjects,    \* Stage._gameObjects
    created,        \* Scene objects constructed by the stage's createScene
    disposed,       \* Scene.isDisposed
    disposeCount,   \* number of Scene.dispose() calls received
    control,        \* scene has input control attached
    onBeforeRender, \* Scene.onBeforeRenderObservable : sequence of callbacks
    onAfterRender,  \* Scene.onAfterRenderObservable
    made,           \* GameObject constructed
    enabled,        \* GameObject._enabled
    beforeObs,      \* GameObject._onBeforeRenderObserver (scene it is on)
    afterObs,       \* GameObject._onAfterRenderObserver
    destroyed,      \* destroy() has been called on the GameObject (history)
    components,     \* GameObject._components
    calls,          \* setActiveStage invocations suspended at `await`
    outlived,       \* game objects whose stage has been superseded (history)
    traced,         \* whether GameObject operations are recorded in history
    nodeCap,        \* how many times the host adds one GameObject to stages
    last            \* the operation that produced this state (history)

vars == <<stageMap, currentScene, renderLoops, loadingUI, stageKind, stageScene,
          gameObjects, created, disposed, disposeCount, control, onBeforeRender,
          onAfterRender, made, enabled, beforeObs, afterObs, destroyed,
          components, calls, outlived, traced, nodeCap, last>>

\* what only a swap changes, apart from the stage map
managerVars == <<stageMap, currentScene, renderLoops, outlived>>
\* what is chosen once, before the program runs
fixedVars == <<stageKind, traced, nodeCap>>
stageVars == <<fixedVars, stageScene, gameObjects, created>>
sceneVars == <<disposed, disposeCount, control, onBeforeRender, onAfterRender>>
objectVars == <<made, enabled, beforeObs, afterObs, destroyed, components>>

\* ------------------------------------------------------------------ helpers
Remove(seq, x) == SelectSeq(seq, LAMBDA y : y # x)
Count(seq, x) == Cardinality({i \in DOMAIN seq : seq[i] = x})
Members(seq) == {seq[i] : i \in DOMAIN seq}

IdleCall == [pc |-> "idle", stage |-> None]

NoCounts == [g \in GameObjects |-> 0]

\* the history record of an operation that is not a tick: what it logged
\* with Logger.error, what its caller got back, for the end of a load the
\* stage loaded, for addStage whether it replaced another stage, for the
\* enabled setter the value of _enabled it found (for destroy whether the
\* object had been destroyed before, for removeNode whether the stage had
\* the object, for removeComponent whether the object had the component),
\* for the setter and destroy
\* the number of Observable.remove calls made, for GameObject.update and
\* lateUpdate the component hooks invoked, and for a method of a Stage the
\* stage and the game objects it invoked the same method on, for a dispose
\* that threw at the end of a load the stage that was loaded, and for the
\* component lookups the class asked for and the array returned
Op(kind, log, ret) ==
    [kind |-> kind, log |-> log, ret |-> ret, arg |-> None, replaced |-> FALSE,
     was |-> FALSE, removes |-> 0, hooks |-> <<>>, stage |-> None,
     invoked |-> <<>>, type |-> None, found |-> <<>>,
     scene |-> None, sceneDisposed |-> FALSE, renders |-> 0,
     upd |-> NoCounts, late |-> NoCounts]

\* the history record of an operation on a GameObject or on a stage's
\* collection, kept only by the specifications that observe them
Trace(op) == IF traced THEN op ELSE Op("other", None, None)

\* two, as if the handles were passed to Observable.remove unchecked
HandlesUnchecked(g) == 2

\* how many of the two observer handles of g are set
Handles(g) ==
    (IF beforeObs[g] # None THEN 1 ELSE 0) + (IF afterObs[g] # None THEN 1 ELSE 0)

\* ------------------------------------------------------------ StageManager
createPlaceholderScene == Placeholder

findStage(name) == stageMap[name]

startRenderLoop(n) == n + 1

\* a stopRenderLoop that leaves the registered render callbacks in place
stopRenderLoopKeeps(n) == n

stopRenderLoop(n) == 0

\* the stages whose scene is `scene`
StagesOn(scene) == {s \in Stages : stageScene[s] = scene}

\* the stage (if any) whose scene is the current scene
ActiveStages == StagesOn(currentScene)

\* the game objects owned by the stages in S
ObjectsOf(S) == UNION {Members(gameObjects[s]) : s \in S}

\* the state after `new StageManager(canvas)`, before any stage is registered
\* and any GameObject constructed
Constructed ==
    /\ stageMap = [n \in Names |-> None]
    /\ currentScene = createPlaceholderScene
    /\ renderLoops = 0
    /\ loadingUI = FALSE
    /\ stageScene = [s \in Stages |-> None]
    /\ gameObjects = [s \in Stages |-> <<>>]
    /\ created = [s \in Stages |-> 0]
    /\ disposed = [x \in Scenes |-> FALSE]
    /\ disposeCount = [x \in Scenes |-> 0]
    /\ control = [x \in Scenes |-> FALSE]
    /\ onBeforeRender = [x \in Scenes |-> <<>>]
    /\ onAfterRender = [x \in Scenes |-> <<>>]
    /\ made = [g \in GameObjects |-> FALSE]
    /\ enabled = [g \in GameObjects |-> FALSE]
    /\ beforeObs = [g \in GameObjects |-> None]
    /\ afterObs = [g \in GameObjects |-> None]
    /\ destroyed = [g \in GameObjects |-> FALSE]
    /\ components = [g \in GameObjects |-> <<>>]
    /\ calls = [c \in Calls |-> IdleCall]
    /\ outlived = {}
    /\ last = Op("other", None, None)

Init ==
    /\ Constructed
    /\ stageKind \in [Stages -> Kinds]
    /\ traced = FALSE
    /\ nodeCap = 1

\* addStage as it would be if a mapped name were left alone
addStageKeepFirst(name, stage) ==
    /\ stageMap' = IF stageMap[name] = None
                   THEN [stageMap EXCEPT ![name] = stage] ELSE stageMap
    /\ last' = [Op("addStage", None, "void") EXCEPT
                   !.replaced = stageMap[name] \notin {None, stage}]
    /\ UNCHANGED <<currentScene, renderLoops, loadingUI, stageVars, sceneVars,
                   objectVars, calls, outlived>>

addStage(name, stage) ==
    /\ stageMap' = [stageMap EXCEPT ![name] = stage]
    /\ last' = [Op("addStage", None, "void") EXCEPT
                   !.replaced = stageMap[name] \notin {None, stage}]
    /\ UNCHANGED <<currentScene, renderLoops, loadingUI, stageVars, sceneVars,
                   objectVars, calls, outlived>>

StartRenderLoop ==
    /\ renderLoops < MaxLoops
    /\ renderLoops' = startRenderLoop(renderLoops)
    /\ last' = Op("other", None, None)
    /\ UNCHANGED <<stageMap, currentScene, loadingUI, stageVars, sceneVars,
                   objectVars, calls, outlived>>

StopRenderLoop ==
    /\ renderLoops' = stopRenderLoop(renderLoops)
    /\ last' = Op("other", None, None)
    /\ UNCHANGED <<stageMap, currentScene, loadingUI, stageVars, sceneVars,
                   objectVars, calls, outlived>>

\* lines 215-219 of setActiveStage: stop, dispose the old scene, reassign,
\* start.  ctl is the control map as left by the code that ran before.
Swap(scene, ctl) ==
    LET oldScene == currentScene
        stopped == stopRenderLoop(renderLoops)
    IN  /\ disposeCount[oldScene] < MaxDispose
        /\ disposed' = [disposed EXCEPT ![oldScene] = TRUE]
        /\ disposeCount' = [disposeCount EXCEPT ![oldScene] = @ + 1]
        /\ onBeforeRender' = [onBeforeRender EXCEPT ![oldScene] = <<>>]
        /\ onAfterRender' = [onAfterRender EXCEPT ![oldScene] = <<>>]
        /\ control' = [ctl EXCEPT ![oldScene] = FALSE]
        /\ currentScene' = scene
        /\ renderLoops' = startRenderLoop(stopped)
        /\ outlived' = outlived \cup
              (IF scene # oldScene THEN ObjectsOf(StagesOn(oldScene)) ELSE {})

\* lines 215-217 when oldScene.dispose() throws: the render loop has been
\* stopped, the error leaves setActiveStage before lines 218-219, and the
\* old scene is left as it was.  `loaded` is the stage whose load the call
\* had awaited, if it had awaited one.
SwapDisposeThrows(scene, loaded) ==
    /\ renderLoops' = stopRenderLoop(renderLoops)
    /\ last' = [Op("disposeThrows", None, "rejected")
                   EXCEPT !.arg = scene, !.stage = loaded]
    /\ UNCHANGED <<stageMap, currentScene, outlived, stageVars, sceneVars,
                   objectVars>>

\* the not-found branch as it would be if the render loop were stopped
\* before the lookup
StageNotFoundStopsLoop(name) ==
    /\ renderLoops' = stopRenderLoop(renderLoops)
    /\ last' = Op("setActiveStage", "Stage not found", "void")
    /\ UNCHANGED <<stageMap, currentScene, outlived, loadingUI, stageVars,
                   sceneVars, objectVars, calls>>

\* line 221: the name is not in the map
StageNotFound(name) ==
    /\ last' = Op("setActiveStage", "Stage not found", "void")
    /\ UNCHANGED <<managerVars, loadingUI, stageVars, sceneVars, objectVars,
                   calls>>

\* `new Scene(engine)` in the createScene of the stage: one more scene
\* constructed for it, counted by the specifications that observe it
NewScene(stage) ==
    /\ traced => created[stage] < MaxCreated
    /\ created' = IF traced THEN [created EXCEPT ![stage] = @ + 1] ELSE created

\* lines 205, 215-219: the stage has a scene already, no load
SwapNow(name, stage) ==
    /\ Swap(stageScene[stage], control)
    /\ last' = Op("setActiveStage", None, "void")
    /\ UNCHANGED <<stageMap, loadingUI, stageVars, objectVars, calls>>

\* lines 206-207 for a GameStage: Stage.load shows the loading screen,
\* detaches control from the current scene and calls GameStage.createScene,
\* which assigns super.scene on its first line and later suspends at
\* `await super.scene.whenReadyAsync()`
BeginLoad(name, stage) ==
    /\ loadingUI' = TRUE
    /\ control' = [control EXCEPT ![currentScene] = FALSE, ![stage] = TRUE]
    /\ stageScene' = [stageScene EXCEPT ![stage] = stage]
    /\ NewScene(stage)
    /\ \E c \in Calls :
          /\ calls[c].pc = "idle"
          /\ \A d \in Calls : d < c => calls[d].pc # "idle"
          /\ calls' = [calls EXCEPT ![c] =
                [pc |-> "loading", stage |-> stage]]
    /\ last' = Op("setActiveStage", None, "pending")
    /\ UNCHANGED <<managerVars, fixedVars, gameObjects, disposed,
                   disposeCount, onBeforeRender, onAfterRender, objectVars>>

\* the same without the check of lines 208-211: the swap goes ahead with
\* the undefined scene
LoadWithoutSceneUnchecked(name, stage) ==
    /\ loadingUI' = FALSE
    /\ Swap(None, [control EXCEPT ![currentScene] = FALSE])
    /\ NewScene(stage)
    /\ last' = Op("setActiveStage", None, "void")
    /\ UNCHANGED <<stageMap, fixedVars, stageScene, gameObjects, objectVars,
                   calls>>

\* lines 206-210 for a stage that inherits Stage.createScene, which builds a
\* scene and returns it without assigning this._scene: nothing is awaited
\* beyond resolved promises, and the load ends with no scene
LoadWithoutScene(name, stage) ==
    /\ loadingUI' = FALSE
    /\ control' = [control EXCEPT ![currentScene] = FALSE]
    /\ NewScene(stage)
    /\ last' = Op("setActiveStage", "Stage not loaded", "void")
    /\ UNCHANGED <<managerVars, fixedVars, stageScene, gameObjects, disposed,
                   disposeCount, onBeforeRender, onAfterRender, objectVars,
                   calls>>

\* setActiveStage(name), from the call up to its return or its first await
setActiveStage(name) ==
    LET stage == findStage(name) IN
    IF stage = None THEN StageNotFound(name)
    ELSE IF stageScene[stage] # None THEN SwapNow(name, stage)
    ELSE IF stageKind[stage] = "GameStage" THEN BeginLoad(name, stage)
    ELSE LoadWithoutScene(name, stage)

\* the awaited createScene resolves: Stage.load hides the loading screen
\* (line 30) and setActiveStage continues after `await stage.load()`
LoadResolve(c) ==
    LET stage == calls[c].stage IN
    /\ calls[c].pc = "loading"
    /\ loadingUI' = FALSE
    /\ calls' = [calls EXCEPT ![c] = IdleCall]
    /\ IF stageScene[stage] = None
       THEN /\ last' = [Op("loadResolve", "Stage not loaded", "void")
                           EXCEPT !.arg = stage]
            /\ UNCHANGED <<managerVars, stageVars, sceneVars, objectVars>>
       ELSE /\ Swap(stageScene[stage], control)
            /\ last' = [Op("loadResolve", None, "void") EXCEPT !.arg = stage]
            /\ UNCHANGED <<stageMap, stageVars, objectVars>>

\* the awaited createScene rejects: load and setActiveStage reject with it
LoadFail(c) ==
    /\ calls[c].pc = "loading"
    /\ calls' = [calls EXCEPT ![c] = IdleCall]
    /\ last' = [Op("loadFail", None, "rejected") EXCEPT !.arg = calls[c].stage]
    /\ UNCHANGED <<managerVars, loadingUI, stageVars, sceneVars, objectVars>>

\* setActiveStage(name) for a GameStage without a scene whose createScene
\* throws before its await (lines 14-45 of GameStage.createScene, after
\* super.scene was assigned and the camera attached): load rejects before
\* hideLoadingUI and setActiveStage rejects with it
LoadThrows(name) ==
    LET stage == findStage(name) IN
    /\ stage # None
    /\ stageScene[stage] = None
    /\ stageKind[stage] = "GameStage"
    /\ loadingUI' = TRUE
    /\ control' = [control EXCEPT ![currentScene] = FALSE, ![stage] = TRUE]
    /\ stageScene' = [stageScene EXCEPT ![stage] = stage]
    /\ NewScene(stage)
    /\ last' = [Op("loadFail", None, "rejected") EXCEPT !.arg = stage]
    /\ UNCHANGED <<managerVars, fixedVars, gameObjects, disposed,
                   disposeCount, onBeforeRender, onAfterRender, objectVars,
                   calls>>

\* setActiveStage(name) for a stage that has a scene, when disposing the
\* old scene throws
SwapNowDisposeThrows(name) ==
    LET stage == findStage(name) IN
    /\ stage # None
    /\ stageScene[stage] # None
    /\ SwapDisposeThrows(stageScene[stage], None)
    /\ UNCHANGED <<loadingUI, calls>>

\* the end of a load, when disposing the old scene throws
LoadResolveDisposeThrows(c) ==
    LET stage == calls[c].stage IN
    /\ calls[c].pc = "loading"
    /\ stageScene[stage] # None
    /\ loadingUI' = FALSE
    /\ calls' = [calls EXCEPT ![c] = IdleCall]
    /\ SwapDisposeThrows(stageScene[stage], stage)

\* --------------------------------------------------------------- GameObject
\* a constructor that subscribes on the scene the registry was built with
\* and not on the scene that is current at the call
ConstructOnPlaceholder(g) ==
    /\ ~made[g]
    /\ made' = [made EXCEPT ![g] = TRUE]
    /\ enabled' = [enabled EXCEPT ![g] = TRUE]
    /\ onBeforeRender' = [onBeforeRender EXCEPT ![Placeholder] = Append(@, g)]
    /\ onAfterRender' = [onAfterRender EXCEPT ![Placeholder] = Append(@, g)]
    /\ beforeObs' = [beforeObs EXCEPT ![g] = Placeholder]
    /\ afterObs' = [afterObs EXCEPT ![g] = Placeholder]
    /\ last' = Trace([Op("construct", None, None) EXCEPT !.arg = g])
    /\ UNCHANGED <<managerVars, loadingUI, stageVars, disposed, disposeCount,
                   control, destroyed, components, calls>>

\* new GameObject(): subscribes on StageManager.scene
Construct(g) ==
    /\ ~made[g]
    /\ made' = [made EXCEPT ![g] = TRUE]
    /\ enabled' = [enabled EXCEPT ![g] = TRUE]
    /\ onBeforeRender' = [onBeforeRender EXCEPT
                             ![currentScene] = Append(@, g)]
    /\ onAfterRender' = [onAfterRender EXCEPT ![currentScene] = Append(@, g)]
    /\ beforeObs' = [beforeObs EXCEPT ![g] = currentScene]
    /\ afterObs' = [afterObs EXCEPT ![g] = currentScene]
    /\ last' = Trace([Op("construct", None, None) EXCEPT !.arg = g])
    /\ UNCHANGED <<managerVars, loadingUI, stageVars, disposed, disposeCount,
                   control, destroyed, components, calls>>

\* an Observable.remove that leaves the observer registered
RemoveObserverKeeps(list, scene, g, handle) == list

\* Observable.remove(observer) on the observable of `scene`: the observer is
\* found only in the list it was added to
RemoveObserver(list, scene, g, handle) ==
    IF handle = scene THEN [list EXCEPT ![scene] = Remove(@, g)] ELSE list

\* the setter without its `this._enabled === value` early return
SetEnabledNoGuard(g, value) ==
    LET scene == currentScene IN
    /\ made[g]
    /\ last' = Trace([Op(IF value THEN "enable" ELSE "disable", None, None)
                         EXCEPT !.arg = g, !.was = enabled[g],
                                !.removes = IF ~value THEN Handles(g) ELSE 0])
    /\ IF value
       THEN /\ onBeforeRender' = [onBeforeRender EXCEPT
                                     ![scene] = Append(@, g)]
            /\ onAfterRender' = [onAfterRender EXCEPT ![scene] = Append(@, g)]
            /\ beforeObs' = [beforeObs EXCEPT ![g] = scene]
            /\ afterObs' = [afterObs EXCEPT ![g] = scene]
            /\ enabled' = [enabled EXCEPT ![g] = TRUE]
            /\ UNCHANGED <<made, destroyed, components, disposed, disposeCount,
                           control>>
       ELSE /\ onBeforeRender' =
                   RemoveObserver(onBeforeRender, scene, g, beforeObs[g])
            /\ onAfterRender' =
                   RemoveObserver(onAfterRender, scene, g, afterObs[g])
            /\ beforeObs' = [beforeObs EXCEPT ![g] = None]
            /\ afterObs' = [afterObs EXCEPT ![g] = None]
            /\ enabled' = [enabled EXCEPT ![g] = FALSE]
            /\ UNCHANGED <<made, destroyed, components, disposed, disposeCount,
                           control>>
    /\ UNCHANGED <<managerVars, loadingUI, stageVars, calls>>

\* set enabled(value)
SetEnabled(g, value) ==
    LET scene == currentScene IN
    /\ made[g]
    /\ last' = Trace([Op(IF value THEN "enable" ELSE "disable", None, None)
                         EXCEPT !.arg = g, !.was = enabled[g],
                                !.removes = IF enabled[g] /\ ~value
                                            THEN Handles(g) ELSE 0])
    /\ IF enabled[g] = value
       THEN UNCHANGED <<sceneVars, objectVars>>
       ELSE IF value
       THEN /\ onBeforeRender' = [onBeforeRender EXCEPT
                                     ![scene] = Append(@, g)]
            /\ onAfterRender' = [onAfterRender EXCEPT ![scene] = Append(@, g)]
            /\ beforeObs' = [beforeObs EXCEPT ![g] = scene]
            /\ afterObs' = [afterObs EXCEPT ![g] = scene]
            /\ enabled' = [enabled EXCEPT ![g] = TRUE]
            /\ UNCHANGED <<made, destroyed, components, disposed, disposeCount,
                           control>>
       ELSE /\ onBeforeRender' =
                   RemoveObserver(onBeforeRender, scene, g, beforeObs[g])
            /\ onAfterRender' =
                   RemoveObserver(onAfterRender, scene, g, afterObs[g])
            /\ beforeObs' = [beforeObs EXCEPT ![g] = None]
            /\ afterObs' = [afterObs EXCEPT ![g] = None]
            /\ enabled' = [enabled EXCEPT ![g] = FALSE]
            /\ UNCHANGED <<made, destroyed, components, disposed, disposeCount,
                           control>>
    /\ UNCHANGED <<managerVars, loadingUI, stageVars, calls>>

\* the state change of destroy(): `this.enabled = false`, then both handles
\* are removed from StageManager.scene if still set, and cleared
DestroyEffect(g) ==
    LET scene == currentScene
        \* after `this.enabled = false`
        b1 == IF enabled[g] THEN None ELSE beforeObs[g]
        a1 == IF enabled[g] THEN None ELSE afterObs[g]
        ob1 == IF enabled[g]
               THEN RemoveObserver(onBeforeRender, scene, g, beforeObs[g])
               ELSE onBeforeRender
        oa1 == IF enabled[g]
               THEN RemoveObserver(onAfterRender, scene, g, afterObs[g])
               ELSE onAfterRender
    IN  /\ enabled' = [enabled EXCEPT ![g] = FALSE]
        /\ onBeforeRender' = IF b1 # None
                             THEN RemoveObserver(ob1, scene, g, b1) ELSE ob1
        /\ onAfterRender' = IF a1 # None
                            THEN RemoveObserver(oa1, scene, g, a1) ELSE oa1
        /\ beforeObs' = [beforeObs EXCEPT ![g] = None]
        /\ afterObs' = [afterObs EXCEPT ![g] = None]
        /\ destroyed' = [destroyed EXCEPT ![g] = traced]
        /\ UNCHANGED <<made, components, disposed, disposeCount, control>>

\* the Observable.remove calls of destroy(): one for each handle that is
\* set, made by `this.enabled = false` if the object is enabled and by
\* destroy() itself if it is not
DestroyRemoves(g) == Handles(g)

Destroy(g) ==
    /\ made[g]
    /\ DestroyEffect(g)
    /\ last' = Trace([Op("destroy", None, None)
                         EXCEPT !.arg = g, !.was = destroyed[g],
                                !.removes = DestroyRemoves(g)])
    /\ UNCHANGED <<managerVars, loadingUI, stageVars, calls>>

\* -------------------------------------------------------------------- Stage
\* how many times g is in the collections of the stages
Copies(g) ==
    Cardinality(UNION {{<<t, i>> : i \in {j \in DOMAIN gameObjects[t] :
                                            gameObjects[t][j] = g}} :
                       t \in Stages})

addNode(s, g) ==
    /\ made[g]
    /\ Copies(g) < nodeCap
    /\ gameObjects' = [gameObjects EXCEPT ![s] = Append(@, g)]
    /\ last' = Trace([Op("addNode", None, None) EXCEPT !.arg = g, !.stage = s])
    /\ UNCHANGED <<managerVars, loadingUI, fixedVars, stageScene, created,
                   sceneVars, objectVars, calls>>

\* a removeNode that does not call gameObject.destroy()
removeNodeOnly(s, g) ==
    /\ made[g]
    /\ gameObjects' = [gameObjects EXCEPT ![s] = Remove(@, g)]
    /\ last' = Trace([Op("removeNode", None, None)
                         EXCEPT !.arg = g, !.stage = s,
                                !.was = g \in Members(gameObjects[s])])
    /\ UNCHANGED <<managerVars, loadingUI, fixedVars, stageScene, created,
                   sceneVars, objectVars, calls>>

\* a removeNode that empties the collection of the stage
removeNodeClears(s, g) ==
    /\ made[g]
    /\ gameObjects' = [gameObjects EXCEPT ![s] = <<>>]
    /\ DestroyEffect(g)
    /\ last' = Trace([Op("removeNode", None, None)
                         EXCEPT !.arg = g, !.stage = s,
                                !.was = g \in Members(gameObjects[s]),
                                !.removes = DestroyRemoves(g)])
    /\ UNCHANGED <<managerVars, loadingUI, fixedVars, stageScene, created,
                   calls>>

removeNode(s, g) ==
    /\ made[g]
    /\ gameObjects' = [gameObjects EXCEPT ![s] = Remove(@, g)]
    /\ DestroyEffect(g)
    /\ last' = Trace([Op("removeNode", None, None)
                         EXCEPT !.arg = g, !.stage = s,
                                !.was = g \in Members(gameObjects[s]),
                                !.removes = DestroyRemoves(g)])
    /\ UNCHANGED <<managerVars, loadingUI, fixedVars, stageScene, created,
                   calls>>

\* the lifecycle methods of a Stage: each calls the same method on every
\* entry of _gameObjects in order, and a GameObject's method only logs
FanOut(s, method) ==
    /\ last' = [Op(method, None, None) EXCEPT
                   !.stage = s, !.invoked = gameObjects[s]]
    /\ UNCHANGED <<managerVars, loadingUI, stageVars, sceneVars, objectVars,
                   calls>>

awake(s) == FanOut(s, "Stage.awake")

start(s) == FanOut(s, "Stage.start")

update(s) == FanOut(s, "Stage.update")

lateUpdate(s) == FanOut(s, "Stage.lateUpdate")

\* ------------------------------------------------------------- components
addComponent(g, c) ==
    /\ made[g]
    /\ Len(components[g]) < MaxComponents
    /\ components' = [components EXCEPT ![g] = Append(@, c)]
    /\ last' = [Op("addComponent", None, None) EXCEPT !.arg = g]
    /\ UNCHANGED <<managerVars, loadingUI, stageVars, sceneVars, made, enabled,
                   beforeObs, afterObs, destroyed, calls>>

\* a removeComponent that empties the list
removeComponentAll(g, c) ==
    /\ made[g]
    /\ components' = [components EXCEPT ![g] = <<>>]
    /\ last' = [Op("removeComponent", None, None) EXCEPT
                   !.arg = g, !.was = c \in Members(components[g])]
    /\ UNCHANGED <<managerVars, loadingUI, stageVars, sceneVars, made, enabled,
                   beforeObs, afterObs, destroyed, calls>>

removeComponent(g, c) ==
    /\ made[g]
    /\ components' = [components EXCEPT ![g] = Remove(@, c)]
    /\ last' = [Op("removeComponent", None, None) EXCEPT
                   !.arg = g, !.was = c \in Members(components[g])]
    /\ UNCHANGED <<managerVars, loadingUI, stageVars, sceneVars, made, enabled,
                   beforeObs, afterObs, destroyed, calls>>

ClassOf(c) == IF c = "c1" THEN "CharacterController" ELSE "PlayerController"

\* the prototype chain of a class
Superclasses(class) ==
    IF class = "PlayerController"
    THEN {"PlayerController", "CharacterController"} ELSE {class}

\* component instanceof componentType
InstanceOf(c, componentType) == componentType \in Superclasses(ClassOf(c))

\* an Array.find that keeps scanning and returns the last match
findLast(seq, componentType) ==
    LET hits == {i \in DOMAIN seq : InstanceOf(seq[i], componentType)}
    IN  IF hits = {} THEN None
        ELSE seq[CHOOSE i \in hits : \A j \in hits : j <= i]

\* Array.find(component => component instanceof componentType): the
\* element at the lowest index that passes the test, or undefined
find(seq, componentType) ==
    LET hits == {i \in DOMAIN seq : InstanceOf(seq[i], componentType)}
    IN  IF hits = {} THEN None
        ELSE seq[CHOOSE i \in hits : \A j \in hits : i <= j]

\* Array.filter(component => component instanceof componentType)
filter(seq, componentType) ==
    SelectSeq(seq, LAMBDA c : InstanceOf(c, componentType))

getFirstComponentOfType(g, componentType) ==
    /\ made[g]
    /\ last' = [Op("getFirstComponentOfType", None,
                      find(components[g], componentType))
                   EXCEPT !.arg = g, !.type = componentType]
    /\ UNCHANGED <<managerVars, loadingUI, stageVars, sceneVars, objectVars,
                   calls>>

getAllComponentsOfType(g, componentType) ==
    /\ made[g]
    /\ last' = [Op("getAllComponentsOfType", None, None)
                   EXCEPT !.arg = g, !.type = componentType,
                          !.found = filter(components[g], componentType)]
    /\ UNCHANGED <<managerVars, loadingUI, stageVars, sceneVars, objectVars,
                   calls>>

\* an update() that calls the update hook of the components: the hook of the
\* first one throws "Method not implemented."
UpdateFansOut(g) ==
    /\ made[g]
    /\ last' = IF components[g] = <<>>
               THEN [Op("update", None, None) EXCEPT !.arg = g]
               ELSE [Op("update", None, "threw") EXCEPT
                        !.arg = g, !.hooks = <<components[g][1]>>]
    /\ UNCHANGED <<managerVars, loadingUI, stageVars, sceneVars, objectVars,
                   calls>>

\* GameObject.update() and lateUpdate() called directly: each only logs with
\* Logger.debug, reads no field and calls no hook of a component
Update(g) ==
    /\ made[g]
    /\ last' = [Op("update", None, None) EXCEPT !.arg = g, !.hooks = <<>>]
    /\ UNCHANGED <<managerVars, loadingUI, stageVars, sceneVars, objectVars,
                   calls>>

LateUpdate(g) ==
    /\ made[g]
    /\ last' = [Op("lateUpdate", None, None) EXCEPT !.arg = g, !.hooks = <<>>]
    /\ UNCHANGED <<managerVars, loadingUI, stageVars, sceneVars, objectVars,
                   calls>>

\* --------------------------------------------------------------------- tick
\* number of callbacks of g notified by one Scene.render() of `scene`
Notified(list, scene, g) ==
    IF disposed[scene] THEN 0 ELSE Count(list[scene], g)

\* one animation frame: the engine runs every active render function, each
\* of which is `StageManager.scene.render()`
Tick ==
    /\ renderLoops > 0
    /\ last' = [Op("tick", None, None) EXCEPT
                   !.scene = currentScene,
                   !.sceneDisposed = disposed[currentScene],
                   !.renders = renderLoops,
                   !.upd = [g \in GameObjects |->
                       renderLoops * Notified(onBeforeRender, currentScene, g)],
                   !.late = [g \in GameObjects |->
                       renderLoops * Notified(onAfterRender, currentScene, g)]]
    /\ UNCHANGED <<managerVars, loadingUI, stageVars, sceneVars, objectVars,
                   calls>>

Next ==
    \/ \E n \in Names, s \in Stages : addStage(n, s)
    \/ \E n \in Names : setActiveStage(n)
    \/ \E c \in Calls : LoadResolve(c)
    \/ \E c \in Calls : LoadFail(c)
    \/ \E n \in Names : LoadThrows(n)
    \/ \E n \in Names : SwapNowDisposeThrows(n)
    \/ \E c \in Calls : LoadResolveDisposeThrows(c)
    \/ StartRenderLoop
    \/ StopRenderLoop
    \/ \E g \in Solo : Construct(g)
    \/ \E g \in GameObjects, v \in BOOLEAN : SetEnabled(g, v)
    \/ \E g \in GameObjects : Destroy(g)
    \/ \E s \in Stages, g \in GameObjects : addNode(s, g)
    \/ \E s \in Stages, g \in GameObjects : removeNode(s, g)
    \/ Tick

Spec == Init /\ [][Next]_vars

\* ------------------------------------------- the GameObject specification
\* The same program with every stage a GameStage, no failing load or
\* dispose, the render loop started by setActiveStage only, and the
\* operations on GameObjects recorded in the history.
InitObjects ==
    /\ Constructed
    /\ stageKind = [s \in Stages |-> "GameStage"]
    /\ traced = TRUE
    /\ nodeCap = 1

NextObjects ==
    \/ \E n \in Names, s \in Stages : addStage(n, s)
    \/ \E n \in Names : setActiveStage(n)
    \/ \E c \in Calls : LoadResolve(c)
    \/ \E g \in Solo : Construct(g)
    \/ \E g \in GameObjects, v \in BOOLEAN : SetEnabled(g, v)
    \/ \E g \in GameObjects : Destroy(g)
    \/ \E s \in Stages, g \in GameObjects : addNode(s, g)
    \/ \E s \in Stages, g \in GameObjects : removeNode(s, g)
    \/ Tick

SpecObjects == InitObjects /\ [][NextObjects]_vars

\* ------------------------------------- the collections specification
\* The collections of the program, the game objects of a stage and the
\* components of a game object, and the lifecycle methods that walk them,
\* called directly by the host; no stage is registered or activated.
InitNodes ==
    /\ Constructed
    /\ stageKind = [s \in Stages |-> "GameStage"]
    /\ traced = TRUE
    /\ nodeCap = MaxNodes

NextNodes ==
    \/ \E g \in Solo : Construct(g)
    \/ \E g \in GameObjects, v \in BOOLEAN : SetEnabled(g, v)
    \/ \E g \in GameObjects : Destroy(g)
    \/ \E g \in GameObjects, c \in Components : addComponent(g, c)
    \/ \E g \in GameObjects, c \in Components : removeComponent(g, c)
    \/ \E g \in GameObjects, T \in Classes : getFirstComponentOfType(g, T)
    \/ \E g \in GameObjects, T \in Classes : getAllComponentsOfType(g, T)
    \/ \E g \in GameObjects : Update(g)
    \/ \E g \in GameObjects : LateUpdate(g)
    \/ \E s \in Stages, g \in GameObjects : addNode(s, g)
    \/ \E s \in Stages, g \in GameObjects : removeNode(s, g)
    \/ \E s \in Stages : awake(s)
    \/ \E s \in Stages : start(s)
    \/ \E s \in Stages : update(s)
    \/ \E s \in Stages : lateUpdate(s)

SpecNodes == InitNodes /\ [][NextNodes]_vars

\* --------------------------------------------------- the group specification
\* Several game objects on the scene the registry starts with, put into
\* the collections of the stages and taken out of them, each at most once
\* in a collection at a time.
InitGroup ==
    /\ Constructed
    /\ stageKind = [s \in Stages |-> "GameStage"]
    /\ traced = TRUE
    /\ nodeCap = 1

NextGroup ==
    \/ \E g \in GameObjects : Construct(g)
    \/ \E g \in GameObjects, v \in BOOLEAN : SetEnabled(g, v)
    \/ \E s \in Stages, g \in GameObjects : addNode(s, g)
    \/ \E s \in Stages, g \in GameObjects : removeNode(s, g)

SpecGroup == InitGroup /\ [][NextGroup]_vars

\* ---------------------------------------------- the sequential specification
\* The registry driven by a host that awaits every setActiveStage call
\* before it makes the next one, with stages of both classes, failing
\* loads, no game objects, and the scenes that createScene constructs
\* counted.
InitLoads ==
    /\ Constructed
    /\ stageKind \in [Stages -> Kinds]
    /\ traced = TRUE
    /\ nodeCap = 1

\* no setActiveStage call is suspended in a load
NoCallPending == \A c \in Calls : calls[c].pc = "idle"

\* `await StageManager.setActiveStage(name)` by the host
AwaitedSetActiveStage(name) == NoCallPending /\ setActiveStage(name)

AwaitedLoadThrows(name) == NoCallPending /\ LoadThrows(name)

NextLoads ==
    \/ \E n \in Names, s \in Stages : addStage(n, s)
    \/ \E n \in Names : AwaitedSetActiveStage(n)
    \/ \E c \in Calls : LoadResolve(c)
    \/ \E c \in Calls : LoadFail(c)
    \/ \E n \in Names : AwaitedLoadThrows(n)
    \/ StartRenderLoop
    \/ StopRenderLoop

SpecLoads == InitLoads /\ [][NextLoads]_vars

\* ------------------------------------------------ the fair specification
\* The registry with game stages only and no game objects, where every
\* load that a setActiveStage call awaits settles in the end: the promise
\* of createScene resolves or rejects, and the continuation of the call
\* then runs to its end, through the swap or out of it by an error of
\* dispose.
InitLive ==
    /\ Constructed
    /\ stageKind = [s \in Stages |-> "GameStage"]
    /\ traced = FALSE
    /\ nodeCap = 1

\* the load awaited by call c settles and the call ends
Settles(c) == LoadResolve(c) \/ LoadFail(c) \/ LoadResolveDisposeThrows(c)

NextLive ==
    \/ \E n \in Names, s \in Stages : addStage(n, s)
    \/ \E n \in Names : setActiveStage(n)
    \/ \E c \in Calls : LoadResolve(c)
    \/ \E c \in Calls : LoadFail(c)
    \/ \E c \in Calls : LoadResolveDisposeThrows(c)

SpecLive ==
    InitLive /\ [][NextLive]_vars /\ \A c \in Calls : WF_vars(Settles(c))

\* ------------------------------------------------------------- properties
Loading(c) == calls[c].pc = "loading"

\* the placeholder or the stages that count as active: those whose scene is
\* the registry's current scene
ActiveOnes ==
    {x \in Scenes : \/ x = Placeholder /\ currentScene = Placeholder
                    \/ x \in Stages /\ stageScene[x] = currentScene}

\* a stage that has had its scene disposed and is not the active one
Superseded(s) ==
    /\ stageScene[s] # None
    /\ disposed[stageScene[s]]
    /\ stageScene[s] # currentScene

\* C1: at every instant the registry's current scene reference is defined
\* and exactly one of the placeholder and the stages is the active one
C1_ExactlyOneActive ==
    /\ currentScene \in Scenes
    /\ Cardinality(ActiveOnes) = 1

\* C1 witness: a load is pending after a stage has been swapped in, and the
\* last call failed with "Stage not found"
C1_Witness ==
    /\ \E c \in Calls : Loading(c)
    /\ currentScene \in Stages
    /\ last.log = "Stage not found"

\* C2: no tick ever renders a scene that has been disposed
C2_NoTickOnDisposedScene ==
    last.kind = "tick" => ~last.sceneDisposed

\* C3: the scene of the active stage is never disposed while it is active
C3_ActiveSceneNotDisposed ==
    ~disposed[currentScene]

\* C4: while a setActiveStage call is suspended in a load, the current scene
\* stays what it was, and a tick updates every enabled game object of the
\* active stage
C4_PreviousStageStaysActive ==
    [][\A c \in Calls : Loading(c) /\ Loading(c)' =>
          /\ currentScene' = currentScene
          /\ last'.kind = "tick" =>
                \A g \in ObjectsOf(ActiveStages) :
                    enabled[g] => last'.upd[g] >= 1]_vars

\* C5: the tick that follows the completion of a stage's load updates each
\* enabled game object of that stage exactly once
C5_NextTickUpdatesNewStage ==
    [][(last.kind = "loadResolve" /\ last.log = None /\ last'.kind = "tick") =>
          \A g \in Members(gameObjects[last.arg]) :
              enabled[g] => last'.upd[g] = 1]_vars

\* C6: no tick ever calls update or lateUpdate on a game object that
\* belonged to a stage when that stage was superseded by another
C6_SupersededObjectsNeverUpdated ==
    last.kind = "tick" =>
        \A g \in outlived : last.upd[g] = 0 /\ last.late[g] = 0

\* C7: every scene is disposed at most once, and the scene of a superseded
\* stage exactly once
C7_DisposedAtMostOnce ==
    /\ \A x \in Scenes : disposeCount[x] <= 1
    /\ \A s \in Stages : Superseded(s) => disposeCount[stageScene[s]] = 1

\* C8: in every tick each enabled game object of the active stage is updated
\* and late-updated exactly once and the game objects of the other stages
\* not at all
C8_OneUpdatePerTick ==
    last.kind = "tick" =>
        /\ \A g \in ObjectsOf(ActiveStages) :
              enabled[g] => last.upd[g] = 1 /\ last.late[g] = 1
        /\ \A g \in ObjectsOf(Stages \ ActiveStages) \ ObjectsOf(ActiveStages) :
              last.upd[g] = 0 /\ last.late[g] = 0

\* what setActiveStage leaves alone when the name is absent
NotFoundFrame ==
    UNCHANGED <<managerVars, loadingUI, stageVars, sceneVars, objectVars,
                calls>>

C11_LoadFailureLeavesUnloaded ==
    [][last'.kind = "loadFail" =>
          /\ last'.ret = "rejected"
          /\ stageScene'[last'.arg] = None
          /\ currentScene' = currentScene
          /\ renderLoops' = renderLoops]_vars

\* C12: while a setActiveStage call is suspended in a load, no second load
\* is started and no swap is performed by another call
C12_SingleFlight ==
    [][\A c \in Calls : Loading(c) =>
          /\ Cardinality({d \in Calls : calls'[d].pc = "loading"}) <= 1
          /\ calls'[c].pc = "loading" => currentScene' = currentScene]_vars

\* C13: no stage is the active one while its load is still in progress
C13_NotActiveWhileLoading ==
    \A c \in Calls : Loading(c) => stageScene[calls[c].stage] # currentScene

\* C14: no game object of a superseded stage holds a before-render or an
\* after-render subscription handle
C14_SupersededObjectsUnsubscribed ==
    \A g \in outlived : beforeObs[g] = None /\ afterObs[g] = None

\* C15: when disposing the old scene raises an error, the requested stage
\* still becomes the active one and the render loop is running
C15_DisposeErrorDoesNotBlockSwap ==
    last.kind = "disposeThrows" =>
        currentScene = last.arg /\ renderLoops > 0

\* C16: a stage that has been superseded and disposed never becomes the
\* active stage again
C16_DisposedIsTerminal ==
    [][\A s \in Stages : Superseded(s) => currentScene' # stageScene[s]]_vars

\* --------------------------------------------------- GameObject properties
\* number of callbacks of g registered on the observables `list` of all scenes
Subscriptions(list, g) ==
    Cardinality({p \in Scenes \X (1..3) :
                    p[2] \in DOMAIN list[p[1]] /\ list[p[1]][p[2]] = g})

\* C17: a game object holds a pre-render handle and a post-render handle
\* exactly when it is enabled and not destroyed: never only one of the two,
\* and none while disabled or destroyed
C17_HandlesIffEnabledAndAlive ==
    \A g \in GameObjects : made[g] =>
        /\ (beforeObs[g] # None) <=> (afterObs[g] # None)
        /\ (beforeObs[g] # None) <=> (enabled[g] /\ ~destroyed[g])

\* C18: enabled=false then enabled=true leaves a game object with exactly one
\* pre-render and one post-render subscription, and the next tick invokes
\* its update once and its lateUpdate once
C18_ToggleKeepsOneUpdatePerTick ==
    [][/\ (last'.kind = "enable" /\ ~last'.was /\ ~destroyed[last'.arg]) =>
             /\ Subscriptions(onBeforeRender', last'.arg) = 1
             /\ Subscriptions(onAfterRender', last'.arg) = 1
       /\ (last'.kind = "tick" /\ last'.renders = 1 /\ last.kind = "enable"
                /\ ~last.was /\ ~destroyed[last.arg]) =>
             /\ last'.upd[last.arg] = 1
             /\ last'.late[last.arg] = 1]_vars

\* C19: a newly constructed game object has exactly one pre-render and one
\* post-render callback registered, and enabled=true on an already enabled
\* game object registers no additional callback
C19_OneCallbackEach ==
    [][/\ last'.kind = "construct" =>
             /\ Subscriptions(onBeforeRender', last'.arg) = 1
             /\ Subscriptions(onAfterRender', last'.arg) = 1
       /\ (last'.kind = "enable" /\ last'.was) =>
             /\ onBeforeRender' = onBeforeRender
             /\ onAfterRender' = onAfterRender]_vars

\* enabled=true has been set on an enabled game object, which still has one
\* callback of each kind
C19_Witness ==
    /\ last.kind = "enable"
    /\ last.was
    /\ Subscriptions(onBeforeRender, last.arg) = 1
    /\ Subscriptions(onAfterRender, last.arg) = 1

\* C20: Destroyed is terminal: after destroy() no operation gives the game
\* object a subscription again or enables it again
C20_DestroyedIsTerminal ==
    \A g \in GameObjects : destroyed[g] =>
        /\ ~enabled[g]
        /\ beforeObs[g] = None
        /\ afterObs[g] = None
        /\ Subscriptions(onBeforeRender, g) = 0
        /\ Subscriptions(onAfterRender, g) = 0

\* everything but the history of the last operation
Frame == <<managerVars, loadingUI, stageVars, sceneVars, objectVars, calls>>

\* C21: after destroy(), a call of update or lateUpdate on the game object
\* does not throw, invokes no hook of a component and changes no state
C21_UpdateAfterDestroyIsNoOp ==
    [][(last'.kind \in {"update", "lateUpdate"} /\ destroyed[last'.arg]) =>
          /\ last'.ret # "threw"
          /\ last'.hooks = <<>>
          /\ UNCHANGED Frame]_vars

\* update has been called on a destroyed game object that has a component
C21_Witness ==
    /\ last.kind = "update"
    /\ destroyed[last.arg]
    /\ components[last.arg] # <<>>

\* C22: destroy() on a game object that an earlier destroy() left disabled
\* is a no-op: it raises no error, calls Observable.remove for no handle and
\* leaves the state as the first call left it
C22_DestroyIsIdempotent ==
    [][(last'.kind = "destroy" /\ destroyed[last'.arg]
            /\ ~enabled[last'.arg]) =>
          /\ last'.ret # "threw"
          /\ last'.removes = 0
          /\ UNCHANGED Frame]_vars

\* destroy() has been called on a game object that was destroyed before
C22_Witness ==
    /\ last.kind = "destroy"
    /\ last.was
    /\ ~enabled[last.arg]

\* C23: enabled=false on an enabled game object clears both handles and
\* leaves none of its callbacks registered; on a disabled game object it
\* calls Observable.remove for no handle and changes no state
C23_DisableUnsubscribesOnce ==
    [][/\ (last'.kind = "disable" /\ last'.was) =>
             /\ ~enabled'[last'.arg]
             /\ beforeObs'[last'.arg] = None
             /\ afterObs'[last'.arg] = None
             /\ Subscriptions(onBeforeRender', last'.arg) = 0
             /\ Subscriptions(onAfterRender', last'.arg) = 0
       /\ (last'.kind = "disable" /\ ~last'.was) =>
             /\ last'.removes = 0
             /\ UNCHANGED Frame]_vars

\* enabled=false has been set on a game object that was already disabled
\* and never destroyed
C23_Witness ==
    /\ last.kind = "disable"
    /\ ~last.was
    /\ ~destroyed[last.arg]

\* C24: a call of update or lateUpdate on a game object invokes the hook of
\* the same name on every component it owns, once each, in attachment order
C24_UpdateFansOutToComponents ==
    last.kind \in {"update", "lateUpdate"} => last.hooks = components[last.arg]

\* the position at which x was first put into seq
FirstAt(seq, x) ==
    CHOOSE i \in DOMAIN seq : seq[i] = x /\ \A j \in 1..(i - 1) : seq[j] # x

StageMethods == {"Stage.awake", "Stage.start", "Stage.update",
                 "Stage.lateUpdate"}

\* C25: awake, start, update and lateUpdate of a stage invoke the method of
\* the same name exactly once on every game object the stage owns, in the
\* order in which they were added
C25_StageFansOutOnceEach ==
    last.kind \in StageMethods =>
        LET owned == gameObjects[last.stage] IN
        /\ \A g \in GameObjects :
              Count(last.invoked, g) = IF g \in Members(owned) THEN 1 ELSE 0
        /\ \A i, j \in DOMAIN last.invoked :
              i < j => FirstAt(owned, last.invoked[i])
                          <= FirstAt(owned, last.invoked[j])

\* C26: when removeNode returns, the game object is not in the collection
\* of the stage, is disabled and holds no observer handle
C26_RemoveNodeDestroys ==
    [][last'.kind = "removeNode" =>
          /\ last'.arg \notin Members(gameObjects'[last'.stage])
          /\ ~enabled'[last'.arg]
          /\ beforeObs'[last'.arg] = None
          /\ afterObs'[last'.arg] = None]_vars

\* removeNode has taken an enabled, subscribed game object out of a stage
C26_Witness ==
    /\ last.kind = "removeNode"
    /\ last.was
    /\ last.removes = 2

\* a stage that is neither being loaded nor has a scene
Unloaded(s) ==
    /\ stageScene[s] = None
    /\ \A c \in Calls : Loading(c) => calls[c].stage # s

\* C27: addNode on a stage that is Unloaded or Disposed does not put the
\* game object into the collection of the stage
C27_AddOnlyWhileLoadingOrActive ==
    [][(last'.kind = "addNode"
            /\ (Unloaded(last'.stage) \/ Superseded(last'.stage))) =>
          gameObjects'[last'.stage] = gameObjects[last'.stage]]_vars

\* the lifecycle state of a stage, read off the program's state
StageState(s) ==
    IF \E c \in Calls : Loading(c) /\ calls[c].stage = s THEN "Loading"
    ELSE IF stageScene[s] # None /\ stageScene[s] = currentScene THEN "Active"
    ELSE IF Superseded(s) THEN "Disposed"
    ELSE "Unloaded"

\* C28: a stage has a scene handle exactly when it is Active or Disposed; a
\* stage that is Unloaded or Loading has none
C28_SceneHandleIffActiveOrDisposed ==
    \A s \in Stages :
        stageScene[s] # None <=> StageState(s) \in {"Active", "Disposed"}

\* the components that an operation took out of the list of g
Dropped(g) == Members(components[g]) \ Members(components'[g])

\* C30: a component leaves the list of its game object only when the game
\* object is destroyed
C30_NoSingleRemoval ==
    [][\A g \in GameObjects :
          Dropped(g) # {} => last'.kind \in {"destroy", "removeNode"}]_vars

\* C30, as the code has it: a component leaves the list only through
\* removeComponent, which removes every occurrence of that one component
\* and keeps the others in order; destroy() and removeNode leave the list
\* as it is
C30_RemovedOnlyByRemoveComponent ==
    [][\A g \in GameObjects :
          /\ Dropped(g) # {} =>
                /\ last'.kind = "removeComponent"
                /\ last'.arg = g
                /\ \E c \in Components :
                      /\ Dropped(g) = {c}
                      /\ components'[g] = Remove(components[g], c)
          /\ last'.kind \in {"destroy", "removeNode"} =>
                components'[g] = components[g]]_vars

\* removeComponent has taken one of two components off a game object
C30_Witness ==
    /\ last.kind = "removeComponent"
    /\ last.was
    /\ Len(components[last.arg]) = 1

\* C35: every Stage.load that showed the loading indicator has hidden it
\* again when the setActiveStage call around it finishes, whether
\* createScene succeeded, left the scene unset or failed
C35_LoadingUIHiddenAtEnd ==
    [][\/ last'.kind \in {"loadResolve", "loadFail"}
       \/ last'.log = "Stage not loaded"
       => ~loadingUI']_vars

\* a setActiveStage call that ran from its start to its end in one step
\* and ended without a swap: the load left the scene unset, or createScene
\* threw before its first await
EndsWithoutSwap ==
    \/ last'.kind = "setActiveStage" /\ last'.log = "Stage not loaded"
    \/ last'.kind = "loadFail" /\ calls' = calls

\* C36: a setActiveStage call that ends without a swap leaves the scene
\* that was active before the call as it was, its input control included
C36_NoSwapLeavesActiveScene ==
    [][EndsWithoutSwap =>
          /\ currentScene' = currentScene
          /\ disposed'[currentScene] = disposed[currentScene]
          /\ onBeforeRender'[currentScene] = onBeforeRender[currentScene]
          /\ onAfterRender'[currentScene] = onAfterRender[currentScene]
          /\ control'[currentScene] = control[currentScene]]_vars

\* the operation was the end of a setActiveStage call that performed the
\* swap of lines 215-219
Swapped(op) ==
    \/ op.kind = "setActiveStage" /\ op.log = None /\ op.ret = "void"
    \/ op.kind = "loadResolve" /\ op.log = None

\* C37: a setActiveStage call that performs the swap leaves the render
\* loop running with exactly one render callback, however many were
\* registered before
C37_SwapLeavesOneRenderLoop ==
    [][Swapped(last') => renderLoops' = 1]_vars

\* a load has ended with the swap, and one render callback is registered
C37_Witness ==
    /\ Swapped(last)
    /\ last.kind = "loadResolve"
    /\ currentScene = last.arg
    /\ renderLoops = 1

\* the indices of seq that hold a component of the class
Matching(seq, class) == {i \in DOMAIN seq : InstanceOf(seq[i], class)}

\* C31: getFirstComponentOfType(T) returns the earliest-attached component
\* of type T, or nothing when there is none; getAllComponentsOfType(T)
\* returns exactly the components of type T in attachment order; neither
\* changes the component sequence
C31_LookupsByType ==
    [][LET seq == components[last'.arg]
           T == last'.type
       IN  /\ last'.kind = "getFirstComponentOfType" =>
                 /\ components' = components
                 /\ IF Matching(seq, T) = {} THEN last'.ret = None
                    ELSE \E i \in Matching(seq, T) :
                            /\ last'.ret = seq[i]
                            /\ \A j \in 1..(i - 1) : j \notin Matching(seq, T)
           /\ last'.kind = "getAllComponentsOfType" =>
                 /\ components' = components
                 /\ Len(last'.found) = Cardinality(Matching(seq, T))
                 /\ \E at \in [DOMAIN last'.found -> Matching(seq, T)] :
                       /\ \A k \in DOMAIN at : last'.found[k] = seq[at[k]]
                       /\ \A k, m \in DOMAIN at : k < m => at[k] < at[m]]_vars

\* getFirstComponentOfType has passed over a component of another class
\* and returned the one attached after it
C31_Witness ==
    /\ last.kind = "getFirstComponentOfType"
    /\ last.ret # None
    /\ Len(components[last.arg]) = 2
    /\ components[last.arg][1] # last.ret
    /\ components[last.arg][2] = last.ret

\* every callback in the list of a scene that is not disposed belongs to a
\* game object that is enabled and whose handle is for that scene
HeldByEnabled(list, handle, enabledOf, disposedOf) ==
    \A x \in Scenes : ~disposedOf[x] =>
        \A i \in DOMAIN list[x] :
            enabledOf[list[x][i]] /\ handle[list[x][i]] = x

\* C32: a subscription made by the constructor or by enabled=true is
\* registered on the scene that is current at that call, an unsubscription
\* by enabled=false or destroy touches only the scene current at that
\* call, and so every callback held by a scene that is not disposed belongs
\* to an enabled game object that holds the matching handle
C32_SubscriptionsOnCurrentScene ==
    [][/\ (last'.kind = "construct" \/ (last'.kind = "enable" /\ ~last'.was)) =>
             /\ beforeObs'[last'.arg] = currentScene
             /\ afterObs'[last'.arg] = currentScene
             /\ onBeforeRender' = [onBeforeRender EXCEPT
                                      ![currentScene] = Append(@, last'.arg)]
             /\ onAfterRender' = [onAfterRender EXCEPT
                                     ![currentScene] = Append(@, last'.arg)]
       /\ last'.kind \in {"disable", "destroy", "removeNode"} =>
             \A x \in Scenes \ {currentScene} :
                 /\ onBeforeRender'[x] = onBeforeRender[x]
                 /\ onAfterRender'[x] = onAfterRender[x]
       /\ HeldByEnabled(onBeforeRender', beforeObs', enabled', disposed')
       /\ HeldByEnabled(onAfterRender', afterObs', enabled', disposed')]_vars

\* enabled=true has subscribed a disabled game object on the scene of a
\* stage, which is current and not disposed
C32_Witness ==
    /\ last.kind = "enable"
    /\ ~last.was
    /\ currentScene \in Stages
    /\ ~disposed[currentScene]
    /\ beforeObs[last.arg] = currentScene
    /\ Count(onBeforeRender[currentScene], last.arg) = 1

\* C34: across setActiveStage calls made one after the other, the scene of
\* each stage is created at most once: a stage is loaded only while it has
\* no scene, and a stage that has a scene is not loaded again
C34_SceneCreatedAtMostOnce ==
    \A s \in Stages : created[s] <= 1

\* the load that a setActiveStage call for stage s awaited has resolved
\* with the scene of s assigned, and the call has run on from there
LoadResolvedFor(s) ==
    \/ last.kind = "loadResolve" /\ last.log = None /\ last.arg = s
    \/ last.kind = "disposeThrows" /\ last.stage = s

\* C33: under fairness, a setActiveStage call for a registered stage whose
\* load resolves with the scene of the stage assigned leads to that scene
\* being the current scene with the render loop running, whatever other
\* calls are pending
C33_ResolvedLoadLeadsToActive ==
    \A s \in Stages :
        LoadResolvedFor(s) ~> (currentScene = stageScene[s] /\ renderLoops > 0)

\* C38: removeNode(g) on a stage affects only g: the other game objects of
\* the stage stay in its collection in their order, the collections of
\* the other stages stay as they are, the enabled flag, the handles and
\* the registered callbacks of every other game object are unchanged, and
\* the collection is unchanged when g is not in it
C38_RemoveNodeAffectsOnlyArgument ==
    [][last'.kind = "removeNode" =>
          LET g == last'.arg
              s == last'.stage
              Others(seq) == SelectSeq(seq, LAMBDA h : h # g)
          IN  /\ Others(gameObjects'[s]) = Others(gameObjects[s])
              /\ g \notin Members(gameObjects[s]) =>
                    gameObjects'[s] = gameObjects[s]
              /\ \A t \in Stages \ {s} : gameObjects'[t] = gameObjects[t]
              /\ \A h \in GameObjects \ {g} :
                    /\ enabled'[h] = enabled[h]
                    /\ beforeObs'[h] = beforeObs[h]
                    /\ afterObs'[h] = afterObs[h]
                    /\ Subscriptions(onBeforeRender', h) =
                          Subscriptions(onBeforeRender, h)
                    /\ Subscriptions(onAfterRender', h) =
                          Subscriptions(onAfterRender, h)]_vars

\* removeNode has taken a game object out of a stage that keeps two
\* others, one enabled and subscribed and one disabled
C38_Witness ==
    /\ last.kind = "removeNode"
    /\ last.was
    /\ Len(gameObjects[last.stage]) = 2
    /\ \E h, k \in Members(gameObjects[last.stage]) :
          /\ enabled[h] /\ Subscriptions(onBeforeRender, h) = 1
          /\ ~enabled[k]
====
